---------------------------- MODULE Spec2Model ----------------------------
(***************************************************************************)
(* Model of scripts/i18n_utils.py: the placeholder codec (sanitize_text,   *)
(* PlaceholderManager), the slug generator and the block scanner           *)
(* collect_markdown_segments.                                              *)
(*                                                                         *)
(* A text is a sequence of one-character strings, so every regular         *)
(* expression of the source is modelled character by character.            *)
(***************************************************************************)
EXTENDS Integers, Sequences, FiniteSets, TLC

(***************************************************************************)
(* Bounds of the model.                                                    *)
(***************************************************************************)
\* longest document of the scanner specification, in lines
MaxLines == 4
\* longest input of the codec specification, in pieces of PIECES
MaxPieces == 4
\* longest document of the block specification, in lines of BLOCK_LINES
MaxBlockLines == 4
\* longest document of the fence specification, in lines of FENCE_LINES
MaxFenceLines == 4
\* longest document of the termination specification, in lines of BLOCK_LINES
MaxTermLines == 3

(***************************************************************************)
(* Characters and character classes.                                       *)
(***************************************************************************)
\* The backtick character, which a TLA+ string cannot hold: it is named.
BACKTICK == "BACKTICK"

\* re's \s and str.strip() on the characters of the model
WHITESPACE == {" ", "\t", "\n"}

DIGITS == <<"0", "1", "2", "3", "4", "5", "6", "7", "8", "9">>

LOWER == <<"a", "b", "c", "d", "e", "f", "g", "h", "i", "j", "k", "l", "m",
           "n", "o", "p", "q", "r", "s", "t", "u", "v", "w", "x", "y", "z">>

UPPER == <<"A", "B", "C", "D", "E", "F", "G", "H", "I", "J", "K", "L", "M",
           "N", "O", "P", "Q", "R", "S", "T", "U", "V", "W", "X", "Y", "Z">>

Range(s) == {s[k] : k \in 1..Len(s)}

IsDigit(c) == c \in Range(DIGITS)

IsUpper(c) == c \in Range(UPPER)

\* [a-z0-9]
IsSlugChar(c) == c \in Range(LOWER) \cup Range(DIGITS)

\* str.lower() on one character
ToLower(c) ==
    IF IsUpper(c) THEN LOWER[CHOOSE k \in 1..26 : UPPER[k] = c] ELSE c

\* str(n) for n >= 0
RECURSIVE IntToStr(_)
IntToStr(n) ==
    IF n < 10 THEN <<DIGITS[n + 1]>>
    ELSE IntToStr(n \div 10) \o <<DIGITS[(n % 10) + 1]>>

(***************************************************************************)
(* String primitives of Python used by the source.                         *)
(***************************************************************************)
\* text[from:] (1-based from)
Drop(text, from) == SubSeq(text, from, Len(text))

\* text.startswith(prefix, i - 1)
StartsWithAt(text, i, prefix) ==
    /\ i + Len(prefix) - 1 <= Len(text)
    /\ \A k \in 1..Len(prefix) : text[i + k - 1] = prefix[k]

\* the least index >= from whose character is in S, Len(text) + 1 if none
FirstIn(text, from, S) ==
    LET ks == {k \in from..Len(text) : text[k] \in S}
    IN  IF ks = {} THEN Len(text) + 1
        ELSE CHOOSE k \in ks : \A m \in ks : k <= m

\* the least index >= from whose character is not in S, Len(text) + 1 if none
FirstNotIn(text, from, S) ==
    LET ks == {k \in from..Len(text) : text[k] \notin S}
    IN  IF ks = {} THEN Len(text) + 1
        ELSE CHOOSE k \in ks : \A m \in ks : k <= m

\* the greatest index whose character is not in S, 0 if none
LastNotIn(text, S) ==
    LET ks == {k \in 1..Len(text) : text[k] \notin S}
    IN  IF ks = {} THEN 0
        ELSE CHOOSE k \in ks : \A m \in ks : k >= m

\* text.lstrip(chars)
LStripSet(text, S) == Drop(text, FirstNotIn(text, 1, S))

\* text.rstrip(chars)
RStripSet(text, S) == SubSeq(text, 1, LastNotIn(text, S))

\* text.strip(chars)
StripSet(text, S) == SubSeq(text, FirstNotIn(text, 1, S), LastNotIn(text, S))

\* text.strip()
Strip(text) == StripSet(text, WHITESPACE)

\* sub in text
Contains(text, sub) ==
    \E i \in 1..(Len(text) + 1) : StartsWithAt(text, i, sub)

\* text.replace(old, new), old non-empty: left to right, non-overlapping
RECURSIVE ReplaceFrom(_, _, _, _, _)
ReplaceFrom(text, i, old, new, out) ==
    IF i > Len(text) THEN out
    ELSE IF StartsWithAt(text, i, old)
         THEN ReplaceFrom(text, i + Len(old), old, new, out \o new)
         ELSE ReplaceFrom(text, i + 1, old, new, Append(out, text[i]))

Replace(text, old, new) == ReplaceFrom(text, 1, old, new, <<>>)

\* sep.join(parts)
RECURSIVE Join(_, _)
Join(parts, sep) ==
    IF Len(parts) = 0 THEN <<>>
    ELSE IF Len(parts) = 1 THEN parts[1]
    ELSE parts[1] \o sep \o Join(Tail(parts), sep)

(***************************************************************************)
(* PlaceholderManager.                                                     *)
(***************************************************************************)
\* PlaceholderManager(): no items, counter 0
NewManager == [items |-> <<>>, counter |-> 0]

\* the token f"[[{kind}_{n}]]"
Token(kind, n) == <<"[", "[">> \o kind \o <<"_">> \o IntToStr(n) \o <<"]", "]">>

\* the mutant of Add that forgets to advance the counter
AddStuck(manager, kind, original) ==
    [items |-> Append(manager.items,
                      [token |-> Token(kind, manager.counter + 1),
                       original |-> original]),
     counter |-> manager.counter]

\* PlaceholderManager.add: the manager after the call; the token returned
\* is that of its last item
Add(manager, kind, original) ==
    [items |-> Append(manager.items,
                      [token |-> Token(kind, manager.counter + 1),
                       original |-> original]),
     counter |-> manager.counter + 1]

LastToken(manager) == manager.items[Len(manager.items)].token

\* PlaceholderManager.restore / Segment.restore_placeholders
RECURSIVE RestoreItems(_, _)
RestoreItems(items, text) ==
    IF Len(items) = 0 THEN text
    ELSE RestoreItems(Tail(items), Replace(text, items[1].token, items[1].original))

Restore(manager, text) == RestoreItems(manager.items, text)

KIND_CODE == <<"C", "O", "D", "E">>
KIND_URL == <<"U", "R", "L">>
KIND_TITLE == <<"T", "I", "T", "L", "E">>
KIND_HTML == <<"H", "T", "M", "L">>
KIND_VAR == <<"V", "A", "R">>


(***************************************************************************)
(* sanitize_text: five substitution passes, each a re.sub over the output  *)
(* of the previous one.  A match is given by the index of its last         *)
(* character, 0 when the pattern does not match at i.                      *)
(***************************************************************************)
\* BACKTICK ([^ BACKTICK]+) BACKTICK at i
CodeMatchEnd(text, i) ==
    LET k == FirstIn(text, i + 1, {BACKTICK})
    IN  IF text[i] = BACKTICK /\ k <= Len(text) /\ k >= i + 2 THEN k ELSE 0

\* (!)?\[(?P<text>[^\]]+)\]\((?P<url>[^)\s]+)(?P<title>\s+\"[^\"]*\")?\) at i:
\* open is the index of "[", close that of "]", url_end the last index of the
\* url group, title_end the last index of the title group (0: no title)
LinkMatch(text, i) ==
    LET n == Len(text)
        open == IF text[i] = "!" THEN i + 1 ELSE i
        close == FirstIn(text, open + 1, {"]"})
        u == close + 2
        p == FirstIn(text, u, WHITESPACE \cup {")"})
        w == FirstNotIn(text, p, WHITESPACE)
        q == FirstIn(text, w + 1, {"\""})
        head == /\ open <= n /\ text[open] = "["
                /\ close <= n /\ close >= open + 2
                /\ close + 1 <= n /\ text[close + 1] = "("
                /\ p <= n /\ p > u
        title == /\ text[p] \in WHITESPACE
                 /\ w <= n /\ text[w] = "\""
                 /\ q + 1 <= n /\ text[q + 1] = ")"
    IN  IF head /\ text[p] = ")"
        THEN [end |-> p, open |-> open, close |-> close, url_end |-> p - 1,
              title_end |-> 0]
        ELSE IF head /\ title
        THEN [end |-> q + 1, open |-> open, close |-> close, url_end |-> p - 1,
              title_end |-> q]
        ELSE [end |-> 0, open |-> 0, close |-> 0, url_end |-> 0, title_end |-> 0]

\* (?P<url>https?://[^\s)]+) at i
RawUrlMatchEnd(text, i) ==
    LET body == IF StartsWithAt(text, i, <<"h", "t", "t", "p", "s", ":", "/", "/">>)
                THEN i + 8
                ELSE IF StartsWithAt(text, i, <<"h", "t", "t", "p", ":", "/", "/">>)
                THEN i + 7
                ELSE 0
        p == FirstIn(text, body, WHITESPACE \cup {")"})
    IN  IF body # 0 /\ p > body THEN p - 1 ELSE 0

\* <[^>]+> at i
AngleMatchEnd(text, i) ==
    LET k == FirstIn(text, i + 1, {">"})
    IN  IF text[i] = "<" /\ k <= Len(text) /\ k >= i + 2 THEN k ELSE 0

\* \{[^{}\s][^{}]*\} at i
VarMatchEnd(text, i) ==
    LET k == FirstIn(text, i + 2, {"{", "}"})
    IN  IF /\ text[i] = "{"
           /\ i + 1 <= Len(text)
           /\ text[i + 1] \notin ({"{", "}"} \cup WHITESPACE)
           /\ k <= Len(text)
           /\ text[k] = "}"
        THEN k ELSE 0

PASSES == <<"code", "link", "url", "angle", "var">>

\* the last index of the match of a pass at i, 0 if none
MatchEnd(pass, text, i) ==
    CASE pass = "code" -> CodeMatchEnd(text, i)
      [] pass = "link" -> LinkMatch(text, i).end
      [] pass = "url" -> RawUrlMatchEnd(text, i)
      [] pass = "angle" -> AngleMatchEnd(text, i)
      [] pass = "var" -> VarMatchEnd(text, i)

\* the mutant of ReplaceLink that separates the two tokens by a space
ReplaceLinkSpaced(manager, text, i, m) ==
    LET prefix == IF m.open > i THEN <<"!">> ELSE <<>>
        inner_text == SubSeq(text, m.open + 1, m.close - 1)
        url == SubSeq(text, m.close + 2, m.url_end)
        title == IF m.title_end = 0 THEN <<>>
                 ELSE SubSeq(text, m.url_end + 1, m.title_end)
        m1 == Add(manager, KIND_URL, url)
        m2 == IF title # <<>> THEN Add(m1, KIND_TITLE, title) ELSE m1
        title_token == IF title # <<>> THEN <<" ">> \o LastToken(m2) ELSE <<>>
    IN  [manager |-> m2,
         repl |-> prefix \o <<"[">> \o inner_text \o <<"]", "(">>
                  \o LastToken(m1) \o title_token \o <<")">>]

\* replace_link for the match m at i: the manager after the call and the
\* text returned
ReplaceLink(manager, text, i, m) ==
    LET prefix == IF m.open > i THEN <<"!">> ELSE <<>>
        inner_text == SubSeq(text, m.open + 1, m.close - 1)
        url == SubSeq(text, m.close + 2, m.url_end)
        title == IF m.title_end = 0 THEN <<>>
                 ELSE SubSeq(text, m.url_end + 1, m.title_end)
        m1 == Add(manager, KIND_URL, url)
        m2 == IF title # <<>> THEN Add(m1, KIND_TITLE, title) ELSE m1
        title_token == IF title # <<>> THEN LastToken(m2) ELSE <<>>
    IN  [manager |-> m2,
         repl |-> prefix \o <<"[">> \o inner_text \o <<"]", "(">>
                  \o LastToken(m1) \o title_token \o <<")">>]

\* replace_angle: kind URL when the span starts with <http, HTML otherwise
AngleKind(value) ==
    IF StartsWithAt(value, 1, <<"<", "h", "t", "t", "p">>) THEN KIND_URL
    ELSE KIND_HTML

\* the replacement callback of a pass for the match text[i..e]
Replacement(pass, manager, text, i, e) ==
    LET value == SubSeq(text, i, e)
        one(kind) == LET m == Add(manager, kind, value)
                     IN  [manager |-> m, repl |-> LastToken(m)]
    IN  CASE pass = "code" -> one(KIND_CODE)
          [] pass = "link" -> ReplaceLink(manager, text, i, LinkMatch(text, i))
          [] pass = "url" -> one(KIND_URL)
          [] pass = "angle" -> one(AngleKind(value))
          [] pass = "var" -> one(KIND_VAR)

\* re.sub(pattern, callback, text): leftmost matches, left to right,
\* non-overlapping, the callback called once per match in that order
RECURSIVE SubFrom(_, _, _, _, _)
RECURSIVE SubAt(_, _, _, _, _, _)
RECURSIVE SubReplaced(_, _, _, _, _)
\* at index i, out and manager holding what the matches before i produced
\* (t, j, o, m: the values of the arguments, computed once)
SubFrom(pass, text, i, out, manager) ==
    IF i > Len(text) THEN [text |-> out, manager |-> manager]
    ELSE CHOOSE r \in {SubAt(pass, t, j, o, m, MatchEnd(pass, t, j)) :
                           t \in {text}, j \in {i}, o \in {out}, m \in {manager}} :
             TRUE

\* e is the last index of the match at i, 0 when there is none
SubAt(pass, text, i, out, manager, e) ==
    IF e = 0 THEN SubFrom(pass, text, i + 1, Append(out, text[i]), manager)
    ELSE SubReplaced(pass, text, e, out, Replacement(pass, manager, text, i, e))

\* r is what the callback returned for the match ending at e
SubReplaced(pass, text, e, out, r) ==
    SubFrom(pass, text, e + 1, out \o r.repl, r.manager)

\* one pass of sanitize_text applied to st = [text, manager]
ApplyPass(pass, st) == SubFrom(pass, st.text, 1, <<>>, st.manager)

\* the passes in order, each applied to the value s the previous one returned
RECURSIVE ApplyPasses(_, _)
ApplyPasses(passes, st) ==
    IF Len(passes) = 0 THEN st
    ELSE CHOOSE r \in {ApplyPasses(Tail(passes), s) :
                           s \in {ApplyPass(passes[1], st)}} : TRUE

\* sanitize_text(raw_text) = (text, manager)
SanitizeText(raw_text) ==
    ApplyPasses(PASSES, [text |-> raw_text, manager |-> NewManager])

(***************************************************************************)
(* Slug generator.  The characters of the model are ASCII, on which the    *)
(* NFKD normalisation and the ascii encoding of _normalise_slug_text       *)
(* change nothing.                                                         *)
(***************************************************************************)
\* PLACEHOLDER_RE \[\[[A-Z]+_\d+\]\] at i: the last index of the match, or 0
PlaceholderMatchEnd(text, i) ==
    LET a == i + 2
        u == FirstNotIn(text, a, Range(UPPER))
        d == FirstNotIn(text, u + 1, Range(DIGITS))
    IN  IF /\ StartsWithAt(text, i, <<"[", "[">>)
           /\ u > a /\ u <= Len(text) /\ text[u] = "_"
           /\ d > u + 1
           /\ StartsWithAt(text, d, <<"]", "]">>)
        THEN d + 1 ELSE 0

\* PLACEHOLDER_RE.sub(" ", text)
RECURSIVE BlankPlaceholders(_, _, _)
BlankPlaceholders(text, i, out) ==
    IF i > Len(text) THEN out
    ELSE LET e == PlaceholderMatchEnd(text, i)
         IN  IF e = 0 THEN BlankPlaceholders(text, i + 1, Append(out, text[i]))
             ELSE BlankPlaceholders(text, e + 1, Append(out, " "))

\* text.lower()
LowerText(text) == [k \in 1..Len(text) |-> ToLower(text[k])]

\* re.sub(r"[^a-z0-9]+", "-", text)
RECURSIVE HyphenateFrom(_, _, _)
HyphenateFrom(text, i, out) ==
    IF i > Len(text) THEN out
    ELSE IF IsSlugChar(text[i]) THEN HyphenateFrom(text, i + 1, Append(out, text[i]))
    ELSE HyphenateFrom(text, FirstIn(text, i, Range(LOWER) \cup Range(DIGITS)),
                       Append(out, "-"))

\* _normalise_slug_text
NormaliseSlugText(text) ==
    StripSet(HyphenateFrom(LowerText(BlankPlaceholders(text, 1, <<>>)), 1, <<>>),
             {"-"})

DEFAULT_SLUG == <<"s", "e", "c", "t", "i", "o", "n">>

\* the mutant of Slugify that has no default
SlugifyBare(text) == NormaliseSlugText(text)

\* slugify(text), default "section"
Slugify(text) ==
    LET slug == NormaliseSlugText(text)
    IN  IF slug = <<>> THEN DEFAULT_SLUG ELSE slug

(***************************************************************************)
(* The line patterns of collect_markdown_segments.                         *)
(***************************************************************************)
\* re.match(r"^(\s*)(`{3,}|~{3,})", line).group(2), <<>> when no match
FenceMarker(line) ==
    LET s == FirstNotIn(line, 1, WHITESPACE)
        e == FirstNotIn(line, s, {line[s]})
    IN  IF s <= Len(line) /\ line[s] \in {BACKTICK, "~"} /\ e - s >= 3
        THEN SubSeq(line, s, e - 1) ELSE <<>>

\* re.match(r"^(#{1,6})\s+(.*)$", stripped): level = len(group(1)), text = group(2)
HeadingMatch(stripped) ==
    LET e == FirstNotIn(stripped, 1, {"#"})
    IN  IF e - 1 >= 1 /\ e - 1 <= 6 /\ e <= Len(stripped) /\ stripped[e] \in WHITESPACE
        THEN [ok |-> TRUE, level |-> e - 1,
              text |-> Drop(stripped, FirstNotIn(stripped, e, WHITESPACE))]
        ELSE [ok |-> FALSE, level |-> 0, text |-> <<>>]

\* re.match(r"^(\s*)([-+*]|\d+\.)\s+(.*)$", line): indent, marker, rest = groups 1..3
ListMatch(line) ==
    LET s == FirstNotIn(line, 1, WHITESPACE)
        d == FirstNotIn(line, s, Range(DIGITS))
        mend == IF s <= Len(line) /\ line[s] \in {"-", "+", "*"} THEN s
                ELSE IF d > s /\ d <= Len(line) /\ line[d] = "." THEN d
                ELSE 0
    IN  IF mend # 0 /\ mend + 1 <= Len(line) /\ line[mend + 1] \in WHITESPACE
        THEN [ok |-> TRUE, indent |-> SubSeq(line, 1, s - 1),
              marker |-> SubSeq(line, s, mend),
              rest |-> Drop(line, FirstNotIn(line, mend + 1, WHITESPACE))]
        ELSE [ok |-> FALSE, indent |-> <<>>, marker |-> <<>>, rest |-> <<>>]

\* len(indent.expandtabs(4)): a tab advances to the next multiple of 4
RECURSIVE ExpandTabsLen(_, _)
ExpandTabsLen(indent, col) ==
    IF Len(indent) = 0 THEN col
    ELSE ExpandTabsLen(Tail(indent),
                       IF indent[1] = "\t" THEN col + 4 - (col % 4) ELSE col + 1)

\* len(next_line[: len(next_line) - len(next_line.lstrip(" "))])
NextIndent(next_line) == FirstNotIn(next_line, 1, {" "}) - 1

\* stripped.startswith(">")
IsQuoteLine(line) == StartsWithAt(Strip(line), 1, <<">">>)

\* q_line.lstrip()[1:].lstrip()
QuoteContent(q_line) ==
    LStripSet(Drop(LStripSet(q_line, WHITESPACE), 2), WHITESPACE)

(***************************************************************************)
(* Inputs.                                                                 *)
(***************************************************************************)
\* rel_path.as_posix(), fixed for a scan
REL_PATH == <<"f">>

\* the lines a document of the scanner specification is made of
LINES ==
    { <<"#", " ", "a">>,                    \* heading of level 1
      <<"#", "#", " ", "a">>,               \* heading of level 2, same text
      <<"#", " ", "a", " ", "2">>,          \* heading whose slug is a-2
      <<"#", " ", "#">>,                    \* heading whose text is empty
      <<"-", " ", "a">>,                    \* list item
      <<" ", " ", "b">>,                    \* indented text
      <<>>,                                 \* blank line
      <<" ", "~", "~", "~">>,               \* indented fence
      <<">", " ", "q">>,                    \* blockquote
      <<BACKTICK, "a", BACKTICK>> }         \* an inline code span alone

\* markdown.splitlines() for every document of at most MaxLines lines
DOCS == UNION {[1..n -> LINES] : n \in 0..MaxLines}

\* the lines a document of the block specification is made of
BLOCK_LINES ==
    { <<"#", " ", "a">>,                    \* heading
      <<"-", " ", "a">>,                    \* list item
      <<"-", " ">>,                         \* list item without text
      <<" ", " ", "-", " ", "c">>,          \* list marker indented by two spaces
      <<" ", " ", "b">>,                    \* text indented by two spaces
      <<"\t", "b">>,                        \* text indented by one tab
      <<>>,                                 \* blank line
      <<">", " ", "q">>,                    \* blockquote
      <<"~", "~", "~">> }                   \* fence

\* the worked example of the documentation: a heading, a blank line and a
\* paragraph with a titled link and an inline code span
WORKED_EXAMPLE ==
    << <<"#", " ", "T", "i", "t", "l", "e">>,
       <<>>,
       <<"S", "e", "e", " ", "[", "d", "o", "c", "s", "]", "(",
         "h", "t", "t", "p", ":", "/", "/", "x", ".", "t", "e", "s", "t", " ",
         "\"", "T", "\"", ")", " ", "f", "o", "r", " ",
         BACKTICK, "c", "o", "d", "e", BACKTICK, ".">> >>

\* the documents of the block specification
BLOCK_DOCS == UNION {[1..n -> BLOCK_LINES] : n \in 0..MaxBlockLines}
              \cup {WORKED_EXAMPLE}

\* the lines a document of the fence specification is made of
FENCE_LINES ==
    { <<"~", "~", "~">>,                    \* fence of three tildes
      <<"~", "~", "~", "~">>,               \* fence of four tildes
      <<BACKTICK, BACKTICK, BACKTICK>>,     \* fence of three backticks
      <<"#", " ", "a">>,                    \* heading
      <<"-", " ", "a">>,                    \* list item
      <<">", " ", "q">>,                    \* blockquote
      <<>>,                                 \* blank line
      <<"b">> }                             \* text

\* the documents of the fence specification
FENCE_DOCS == UNION {[1..n -> FENCE_LINES] : n \in 0..MaxFenceLines}

\* the pieces an input of the codec specification is made of
PIECES ==
    { <<BACKTICK>>, <<"a">>, <<" ">>, <<"[">>, <<"]">>, <<"(">>, <<")">>,
      <<"<">>, <<">">>, <<"{">>, <<"}">>, <<"\"">>,
      <<"h", "t", "t", "p", ":", "/", "/">> }

\* the concatenation of a sequence of texts
RECURSIVE Concat(_)
Concat(parts) == IF Len(parts) = 0 THEN <<>> ELSE parts[1] \o Concat(Tail(parts))

\* longer inputs: spans of different passes nested in or next to each other
EXAMPLES ==
    { <<"[", "x", "]", "(", BACKTICK, "a", BACKTICK, ")">>,
      <<"!", "[", "i", "]", "(", "u", " ", "\"", "t", "\"", ")">>,
      <<"<", "a", " ", "h", "=", "\"", "h", "t", "t", "p", ":", "/", "/", "x", "\"", ">">>,
      <<"<", "h", "t", "t", "p", "s", ":", "/", "/", "a", "/", "b", ">">>,
      <<"{", "v", "}", " ", "<", "b", ">", " ", BACKTICK, "c", BACKTICK, " ",
        "h", "t", "t", "p", ":", "/", "/", "u", " ", "[", "t", "]", "(", "w", ")">>,
      <<"S", "e", "e", " ", "[", "d", "o", "c", "s", "]", "(",
        "h", "t", "t", "p", ":", "/", "/", "x", ".", "t", "e", "s", "t", " ",
        "\"", "T", "\"", ")", " ", "f", "o", "r", " ",
        BACKTICK, "c", "o", "d", "e", BACKTICK, ".">> }

\* the inputs of sanitize_text: every text of at most MaxPieces pieces, and
\* the examples
TEXTS == {Concat(ps) : ps \in UNION {[1..n -> PIECES] : n \in 0..MaxPieces}}
         \cup EXAMPLES

(***************************************************************************)
(* State.  The scanner: the locals of collect_markdown_segments and pc.    *)
(* History: calls (one entry per register_segment call), headings (one     *)
(* entry per heading line processed), paragraph_nos (the numbers of the    *)
(* lines in paragraph_lines).  The codec: raw_text, text, manager, stage.  *)
(***************************************************************************)
VARIABLES lines, i, segments, heading_stack, slug_counters, block_counters,
          paragraph_lines, paragraph_start, in_fence, fence_marker, order, pc,
          calls, headings, paragraph_nos,
          raw_text, text, manager, stage

scan_vars == <<lines, i, segments, heading_stack, slug_counters, block_counters,
               paragraph_lines, paragraph_start, in_fence, fence_marker, order,
               pc, calls, headings, paragraph_nos>>

codec_vars == <<raw_text, text, manager, stage>>

vars == <<scan_vars, codec_vars>>

(***************************************************************************)
(* collect_markdown_segments: the closures.                                *)
(***************************************************************************)
\* the mutant of Get whose default is 1
GetFromOne(dict, key) == IF key \in DOMAIN dict THEN dict[key] ELSE 1

\* dict.get(key, 0)
Get(dict, key) == IF key \in DOMAIN dict THEN dict[key] ELSE 0

\* dict[key] = value
Put(dict, key, value) ==
    [k \in DOMAIN dict \cup {key} |-> IF k = key THEN value ELSE dict[k]]

ROOT == <<"r", "o", "o", "t">>

\* current_context()
CurrentContext(stack) ==
    IF stack = <<>> THEN ROOT
    ELSE Join([k \in 1..Len(stack) |-> stack[k][2]], <<"#">>)

\* suffix_map
SuffixMap(block_type) ==
    CASE block_type = "paragraph" -> <<"p">>
      [] block_type = "list_item" -> <<"l", "i">>
      [] block_type = "blockquote" -> <<"q">>

\* the mutant of Msgid that forgets to trim
MsgidRaw(sanitized) == sanitized

\* msgid=sanitized.strip()
Msgid(sanitized) == Strip(sanitized)

\* the mutant of SegmentOrder that reads the counter before it is advanced
SegmentOrderStale(count) == count

\* order += 1 ... order=order
SegmentOrder(count) == count + 1

\* register_segment once the content is sanitized: ctx is current_context(),
\* san the result of sanitize_text(content), call the history entry
RegisterSanitized(st, ctx, block_type, start_line, metadata, san, call) ==
    IF Strip(san.text) = <<>>
    THEN [st EXCEPT !.calls = Append(@, [call |-> call, seg |-> 0])]
    ELSE LET key == <<ctx, block_type>>
             n == Get(st.block_counters, key) + 1
         IN  [segments |-> Append(st.segments,
                  [identifier |->
                       IF block_type = "heading"
                       THEN REL_PATH \o <<"#">> \o ctx \o <<"#", "t", "i", "t", "l", "e">>
                       ELSE REL_PATH \o <<"#">> \o ctx \o <<"#">> \o SuffixMap(block_type)
                            \o <<"-">> \o IntToStr(n),
                   file_path |-> REL_PATH,
                   start_line |-> start_line,
                   block_type |-> block_type,
                   msgid |-> Msgid(san.text),
                   placeholders |-> san.manager.items,
                   context_path |-> ctx,
                   order |-> SegmentOrder(st.order),
                   metadata |-> metadata]),
              block_counters |-> IF block_type = "heading" THEN st.block_counters
                                 ELSE Put(st.block_counters, key, n),
              order |-> st.order + 1,
              calls |-> Append(st.calls,
                               [call |-> call, seg |-> Len(st.segments) + 1])]

\* register_segment, on st = [segments, block_counters, order, calls].  nos
\* (the numbers of the lines the content was taken from) and nheads (the
\* number of heading lines processed so far) go to the history only.
\* (s, c, san: the values of st, content and sanitize_text(content), computed
\* once)
RegisterSegment(st, stack, block_type, start_line, content, metadata, nos, nheads) ==
    CHOOSE r \in {RegisterSanitized(s, CurrentContext(stack), block_type,
                       start_line, metadata, san,
                       [block_type |-> block_type, start_line |-> start_line,
                        content |-> c, nos |-> nos, nheads |-> nheads]) :
                   s \in {st}, c \in {content}, san \in {SanitizeText(content)}} :
        TRUE

\* the mutant of ParagraphStart that reports the first line of the document
ParagraphStartTop(start) == 1

\* start_line=paragraph_start or 1
ParagraphStart(start) == IF start = 0 THEN 1 ELSE start

\* the mutant of FlushParagraph that leaves the buffer as it is
FlushParagraphKeep(sc) ==
    IF sc.paragraph_lines = <<>> THEN sc
    ELSE [sc EXCEPT
            !.st = IF Strip(StripSet(Join(sc.paragraph_lines, <<"\n">>), {"\n"})) # <<>>
                   THEN RegisterSegment(sc.st, sc.heading_stack, "paragraph",
                            ParagraphStart(sc.paragraph_start),
                            StripSet(Join(sc.paragraph_lines, <<"\n">>), {"\n"}),
                            [lines |-> sc.paragraph_lines],
                            sc.paragraph_nos, Len(sc.headings))
                   ELSE sc.st]

\* flush_paragraph, on the scanner state sc (a record of the locals)
FlushParagraph(sc) ==
    IF sc.paragraph_lines = <<>> THEN sc
    ELSE [sc EXCEPT
            !.st = IF Strip(StripSet(Join(sc.paragraph_lines, <<"\n">>), {"\n"})) # <<>>
                   THEN RegisterSegment(sc.st, sc.heading_stack, "paragraph",
                            ParagraphStart(sc.paragraph_start),
                            StripSet(Join(sc.paragraph_lines, <<"\n">>), {"\n"}),
                            [lines |-> sc.paragraph_lines],
                            sc.paragraph_nos, Len(sc.headings))
                   ELSE sc.st,
            !.paragraph_lines = <<>>,
            !.paragraph_start = 0,
            !.paragraph_nos = {}]

\* the locals read and written by flush_paragraph and register_segment
Locals ==
    [st |-> [segments |-> segments, block_counters |-> block_counters,
             order |-> order, calls |-> calls],
     heading_stack |-> heading_stack,
     headings |-> headings,
     paragraph_lines |-> paragraph_lines,
     paragraph_start |-> paragraph_start,
     paragraph_nos |-> paragraph_nos]

\* the locals after a step: sc, with the registration state st
Store(sc, st) ==
    /\ segments' = st.segments
    /\ block_counters' = st.block_counters
    /\ order' = st.order
    /\ calls' = st.calls
    /\ paragraph_lines' = sc.paragraph_lines
    /\ paragraph_start' = sc.paragraph_start
    /\ paragraph_nos' = sc.paragraph_nos

(***************************************************************************)
(* collect_markdown_segments: the main loop, one action per branch.        *)
(***************************************************************************)
\* the branch of the loop body that handles lines[i] in the current state
Branch(line, fenced) ==
    IF FenceMarker(line) # <<>> THEN "fence"
    ELSE IF fenced THEN "skip"
    ELSE IF HeadingMatch(Strip(line)).ok THEN "heading"
    ELSE IF ListMatch(line).ok THEN "list"
    ELSE IF IsQuoteLine(line) THEN "quote"
    ELSE IF Strip(line) = <<>> THEN "blank"
    ELSE "paragraph"

\* while i < len(lines), in the branch b
At(b) == pc = "scan" /\ i < Len(lines) /\ Branch(lines[i + 1], in_fence) = b

\* the mutant of PopStack that keeps a heading of the same level open
RECURSIVE PopStackDeeper(_, _)
PopStackDeeper(stack, level) ==
    IF stack # <<>> /\ stack[Len(stack)][1] > level
    THEN PopStackDeeper(SubSeq(stack, 1, Len(stack) - 1), level)
    ELSE stack

\* while heading_stack and heading_stack[-1][0] >= level: heading_stack.pop()
RECURSIVE PopStack(_, _)
PopStack(stack, level) ==
    IF stack # <<>> /\ stack[Len(stack)][1] >= level
    THEN PopStack(SubSeq(stack, 1, Len(stack) - 1), level)
    ELSE stack

\* the mutant of DisambiguatedSlug that numbers a repeat by the old count
DisambiguatedSlugOld(base_slug, count) ==
    IF count # 0 THEN base_slug \o <<"-">> \o IntToStr(count) ELSE base_slug

\* slug = f"{base_slug}-{count + 1}" if count else base_slug
DisambiguatedSlug(base_slug, count) ==
    IF count # 0 THEN base_slug \o <<"-">> \o IntToStr(count + 1) ELSE base_slug

\* f"h{level}-{slug}"
HeadingId(level, slug) == <<"h">> \o IntToStr(level) \o <<"-">> \o slug

\* the mutant of FenceCloses that compares the marker characters only
FenceClosesSameChar(opener, marker) == opener[1] = marker[1]

\* elif fence_marker == marker
FenceCloses(opener, marker) == opener = marker

\* the fence branch: open, close on the same marker, or stay fenced
FenceLine ==
    /\ At("fence")
    /\ \E marker \in {FenceMarker(lines[i + 1])} :
         /\ in_fence' = IF ~in_fence THEN TRUE
                        ELSE IF FenceCloses(fence_marker, marker) THEN FALSE
                        ELSE in_fence
         /\ fence_marker' = IF ~in_fence THEN marker
                            ELSE IF FenceCloses(fence_marker, marker) THEN <<>>
                            ELSE fence_marker
    /\ \E sc \in {IF ~in_fence THEN FlushParagraph(Locals) ELSE Locals} :
         Store(sc, sc.st)
    /\ i' = i + 1
    /\ UNCHANGED <<lines, heading_stack, slug_counters, pc, headings, codec_vars>>

\* if in_fence: i += 1; continue
FenceSkip ==
    /\ At("skip")
    /\ i' = i + 1
    /\ UNCHANGED <<lines, segments, heading_stack, slug_counters, block_counters,
                   paragraph_lines, paragraph_start, in_fence, fence_marker,
                   order, pc, calls, headings, paragraph_nos, codec_vars>>

\* the heading branch, the statements in the order of the source
Heading ==
    /\ At("heading")
    /\ \E sc \in {FlushParagraph(Locals)}, m \in {HeadingMatch(Strip(lines[i + 1]))} :
       \E level \in {m.level}, raw_heading \in {Strip(RStripSet(m.text, {"#"}))} :
       \E base_slug \in {Slugify(raw_heading)} :
       \E count \in {Get(slug_counters, <<level, base_slug>>)} :
       \E slug \in {DisambiguatedSlug(base_slug, count)} :
       \E stack \in {Append(PopStack(heading_stack, level),
                            <<level, HeadingId(level, slug)>>)} :
         /\ slug_counters' = Put(slug_counters, <<level, base_slug>>, count + 1)
         /\ heading_stack' = stack
         /\ headings' = Append(headings, [line_no |-> i + 1, level |-> level,
                                          base_slug |-> base_slug, slug |-> slug])
         /\ Store(sc, RegisterSegment(sc.st, stack, "heading", i + 1, raw_heading,
                                      [level |-> level, slug |-> slug],
                                      {i + 1}, Len(headings) + 1))
    /\ i' = i + 1
    /\ UNCHANGED <<lines, in_fence, fence_marker, pc, codec_vars>>

\* the mutant of ListBreaks that ends the item at every list marker
ListBreaksAtMarker(next_line, base_indent) == ListMatch(next_line).ok

\* if re.match(list marker, next_line) and next_indent <= base_indent: break
ListBreaks(next_line, base_indent) ==
    ListMatch(next_line).ok /\ NextIndent(next_line) <= base_indent

\* the inner loop of the list branch, from index j (0-based, as i)
RECURSIVE ListAccumulate(_, _, _, _, _)
ListAccumulate(ls, j, base_indent, item_lines, nos) ==
    IF j >= Len(ls) THEN [i |-> j, item_lines |-> item_lines, nos |-> nos]
    ELSE IF ListBreaks(ls[j + 1], base_indent)
    THEN [i |-> j, item_lines |-> item_lines, nos |-> nos]
    ELSE IF Strip(ls[j + 1]) = <<>>
    THEN ListAccumulate(ls, j + 1, base_indent, Append(item_lines, <<>>),
                        nos \cup {j + 1})
    ELSE IF NextIndent(ls[j + 1]) > base_indent
    THEN ListAccumulate(ls, j + 1, base_indent,
                        Append(item_lines, Drop(ls[j + 1], base_indent + 1)),
                        nos \cup {j + 1})
    ELSE [i |-> j, item_lines |-> item_lines, nos |-> nos]

\* the list branch
ListItem ==
    /\ At("list")
    /\ \E sc \in {FlushParagraph(Locals)}, m \in {ListMatch(lines[i + 1])} :
       \E acc \in {ListAccumulate(lines, i + 1, ExpandTabsLen(m.indent, 0),
                                  <<m.rest>>, {i + 1})} :
         /\ Store(sc, RegisterSegment(sc.st, heading_stack, "list_item", i + 1,
                                      StripSet(Join(acc.item_lines, <<"\n">>), {"\n"}),
                                      [indent |-> m.indent, marker |-> m.marker],
                                      acc.nos, Len(headings)))
         /\ i' = acc.i
    /\ UNCHANGED <<lines, heading_stack, slug_counters, in_fence, fence_marker, pc,
                   headings, codec_vars>>

\* the inner loop of the blockquote branch, from index j (0-based, as i)
RECURSIVE QuoteAccumulate(_, _, _, _)
QuoteAccumulate(ls, j, quote_lines, nos) ==
    IF j >= Len(ls) THEN [i |-> j, quote_lines |-> quote_lines, nos |-> nos]
    ELSE IF IsQuoteLine(ls[j + 1])
    THEN QuoteAccumulate(ls, j + 1, Append(quote_lines, QuoteContent(ls[j + 1])),
                         nos \cup {j + 1})
    ELSE IF Strip(ls[j + 1]) = <<>>
    THEN QuoteAccumulate(ls, j + 1, Append(quote_lines, <<>>), nos \cup {j + 1})
    ELSE [i |-> j, quote_lines |-> quote_lines, nos |-> nos]

\* the blockquote branch
Blockquote ==
    /\ At("quote")
    /\ \E sc \in {FlushParagraph(Locals)}, acc \in {QuoteAccumulate(lines, i, <<>>, {})} :
         /\ Store(sc, RegisterSegment(sc.st, heading_stack, "blockquote", i + 1,
                                      StripSet(Join(acc.quote_lines, <<"\n">>), {"\n"}),
                                      <<>>, acc.nos, Len(headings)))
         /\ i' = acc.i
    /\ UNCHANGED <<lines, heading_stack, slug_counters, in_fence, fence_marker, pc,
                   headings, codec_vars>>

\* if stripped == "": flush_paragraph()
BlankLine ==
    /\ At("blank")
    /\ \E sc \in {FlushParagraph(Locals)} : Store(sc, sc.st)
    /\ i' = i + 1
    /\ UNCHANGED <<lines, heading_stack, slug_counters, in_fence, fence_marker, pc,
                   headings, codec_vars>>

\* the default branch: the line joins the pending paragraph
ParagraphLine ==
    /\ At("paragraph")
    /\ paragraph_start' = IF paragraph_lines = <<>> THEN i + 1 ELSE paragraph_start
    /\ paragraph_lines' = Append(paragraph_lines, lines[i + 1])
    /\ paragraph_nos' = paragraph_nos \cup {i + 1}
    /\ i' = i + 1
    /\ UNCHANGED <<lines, segments, heading_stack, slug_counters, block_counters,
                   in_fence, fence_marker, order, pc, calls, headings, codec_vars>>

\* after the loop: flush_paragraph(); return segments
Finish ==
    /\ pc = "scan"
    /\ i >= Len(lines)
    /\ \E sc \in {FlushParagraph(Locals)} : Store(sc, sc.st)
    /\ pc' = "done"
    /\ UNCHANGED <<lines, i, heading_stack, slug_counters, in_fence, fence_marker,
                   headings, codec_vars>>

\* the locals of collect_markdown_segments before the loop
ScanStart ==
    /\ i = 0
    /\ segments = <<>>
    /\ heading_stack = <<>>
    /\ slug_counters = <<>>
    /\ block_counters = <<>>
    /\ paragraph_lines = <<>>
    /\ paragraph_start = 0
    /\ in_fence = FALSE
    /\ fence_marker = <<>>
    /\ order = 0
    /\ pc = "scan"
    /\ calls = <<>>
    /\ headings = <<>>
    /\ paragraph_nos = {}
    /\ raw_text = <<>>
    /\ text = <<>>
    /\ manager = NewManager
    /\ stage = "idle"

\* the state of collect_markdown_segments before the loop, for every document
Init ==
    /\ lines \in DOCS
    /\ ScanStart

Next ==
    \/ FenceLine
    \/ FenceSkip
    \/ Heading
    \/ ListItem
    \/ Blockquote
    \/ BlankLine
    \/ ParagraphLine
    \/ Finish

Spec == Init /\ [][Next]_vars

\* the scanner on the documents of the block specification
InitBlocks ==
    /\ lines \in BLOCK_DOCS
    /\ ScanStart

SpecBlocks == InitBlocks /\ [][Next]_vars

\* the scanner on the documents of the termination specification
InitTerminating ==
    /\ lines \in UNION {[1..n -> BLOCK_LINES] : n \in 0..MaxTermLines}
                 \cup {WORKED_EXAMPLE}
    /\ ScanStart

\* the scanner on the documents of the fence specification
InitFences ==
    /\ lines \in FENCE_DOCS
    /\ ScanStart

SpecFences == InitFences /\ [][Next]_vars

\* the loop runs to its end: the scan is one sequential call that nothing
\* suspends, so a step that is enabled is taken
SpecTerminating == InitTerminating /\ [][Next]_vars /\ WF_vars(Next)

(***************************************************************************)
(* The codec alone: sanitize_text pass by pass, then restore.              *)
(***************************************************************************)
\* the stage after each pass of sanitize_text
NextStage(pass) ==
    CASE pass = "code" -> "link"
      [] pass = "link" -> "url"
      [] pass = "url" -> "angle"
      [] pass = "angle" -> "var"
      [] pass = "var" -> "restore"

\* one re.sub of sanitize_text, on the output of the previous one
SanitizePass(pass) ==
    /\ \E st \in {ApplyPass(pass, [text |-> text, manager |-> manager])} :
         /\ text' = st.text
         /\ manager' = st.manager
    /\ stage' = NextStage(pass)
    /\ UNCHANGED <<raw_text, scan_vars>>

\* inline code spans
CodePass ==
    /\ stage = "code"
    /\ SanitizePass("code")

\* markdown links and images
LinkPass ==
    /\ stage = "link"
    /\ SanitizePass("link")

\* raw URLs
RawUrlPass ==
    /\ stage = "url"
    /\ SanitizePass("url")

\* HTML tags or autolinks
AnglePass ==
    /\ stage = "angle"
    /\ SanitizePass("angle")

\* variables
VarPass ==
    /\ stage = "var"
    /\ SanitizePass("var")

\* manager.restore(text) on the text sanitize_text returned
RestoreText ==
    /\ stage = "restore"
    /\ text' = Restore(manager, text)
    /\ stage' = "done"
    /\ UNCHANGED <<raw_text, manager, scan_vars>>

\* sanitize_text(raw_text) at its first statement, for every input
InitCodec ==
    /\ raw_text \in TEXTS
    /\ text = raw_text
    /\ manager = NewManager
    /\ stage = "code"
    /\ lines = <<>>
    /\ i = 0
    /\ segments = <<>>
    /\ heading_stack = <<>>
    /\ slug_counters = <<>>
    /\ block_counters = <<>>
    /\ paragraph_lines = <<>>
    /\ paragraph_start = 0
    /\ in_fence = FALSE
    /\ fence_marker = <<>>
    /\ order = 0
    /\ pc = "idle"
    /\ calls = <<>>
    /\ headings = <<>>
    /\ paragraph_nos = {}

NextCodec ==
    \/ CodePass
    \/ LinkPass
    \/ RawUrlPass
    \/ AnglePass
    \/ VarPass
    \/ RestoreText

SpecCodec == InitCodec /\ [][NextCodec]_vars

(***************************************************************************)
(* Properties of the codec, checked under SpecCodec.                       *)
(***************************************************************************)
\* a substring of t matches the placeholder token pattern
HasToken(t) == \E k \in 1..Len(t) : PlaceholderMatchEnd(t, k) # 0

\* C1 (round trip): for every input with no token-like substring, restoring
\* the sanitized text with the records of the same sanitize call, in
\* insertion order, gives back the input, also when spans of different
\* passes are nested or adjacent.
C1_RoundTrip ==
    (stage = "done" /\ ~HasToken(raw_text)) => text = raw_text

\* C8 (pass isolation): for every input with no token-like substring, no
\* record's original contains a placeholder token, that is, no later pass
\* matched a span that holds a token of an earlier pass.
C8_PassIsolation ==
    ~HasToken(raw_text) =>
        \A k \in 1..Len(manager.items) : ~HasToken(manager.items[k].original)

\* the angle-bracket spans of t from index k on, leftmost first
RECURSIVE AngleSpansFrom(_, _)
AngleSpansFrom(t, k) ==
    IF k > Len(t) THEN {}
    ELSE IF AngleMatchEnd(t, k) = 0 THEN AngleSpansFrom(t, k + 1)
    ELSE {SubSeq(t, k, AngleMatchEnd(t, k))}
         \cup AngleSpansFrom(t, AngleMatchEnd(t, k) + 1)

\* C9 (angle-bracket protection): for an input without backticks and without
\* markdown links, when sanitize_text returns, every angle-bracket span of the
\* input is the original of one record, whose kind is URL when the span starts
\* with <http and HTML otherwise.
C9_AngleSpansProtected ==
    ( /\ stage = "restore"
      /\ BACKTICK \notin Range(raw_text)
      /\ \A k \in 1..Len(raw_text) : LinkMatch(raw_text, k).end = 0 )
    => \A span \in AngleSpansFrom(raw_text, 1) :
           \E k \in 1..Len(manager.items) :
               /\ manager.items[k].original = span
               /\ manager.items[k].token = Token(AngleKind(span), k)

(***************************************************************************)
(* Properties of the scanner, checked under Spec.                          *)
(***************************************************************************)
\* the segments registered so far, each with the history of its call
Emitted == {c \in 1..Len(calls) : calls[c].seg # 0}

\* C2 (identifier uniqueness): the identifiers of the segments of one
\* document are pairwise distinct.
C2_IdentifiersDistinct ==
    \A a, b \in 1..Len(segments) :
        a # b => segments[a].identifier # segments[b].identifier

\* C3 (order monotonicity): at every point of a scan the i-th segment has
\* order i, and the order counter equals the number of segments, so a unit
\* that was dropped consumed no order value.
C3_OrderIsIndex ==
    /\ order = Len(segments)
    /\ \A k \in 1..Len(segments) : segments[k].order = k

\* a unit was dropped and, after it, a second segment was emitted
C3_Witness ==
    \E c, d \in 1..Len(calls) :
        c < d /\ calls[c].seg = 0 /\ calls[d].seg >= 2

\* the fence state of a reference that walks the first k lines applying only
\* the open/close rule: the marker of the open fence, <<>> when none is open
RECURSIVE RefFence(_, _)
RefFence(ls, k) ==
    IF k = 0 THEN <<>>
    ELSE IF FenceMarker(ls[k]) = <<>> THEN RefFence(ls, k - 1)
    ELSE IF RefFence(ls, k - 1) = <<>> THEN FenceMarker(ls[k])
    ELSE IF RefFence(ls, k - 1) = FenceMarker(ls[k]) THEN <<>>
    ELSE RefFence(ls, k - 1)

\* line k lies strictly between a fence opener and the line that closes it
StrictlyFenced(ls, k) ==
    /\ RefFence(ls, k - 1) # <<>>
    /\ FenceMarker(ls[k]) # RefFence(ls, k - 1)
    /\ \E j \in (k + 1)..Len(ls) : FenceMarker(ls[j]) = RefFence(ls, k - 1)

\* C4 (fence suppression): no line lying strictly between a fence opener and
\* its closing line contributes its text to the msgid of a segment.
C4_FencedLinesSuppressed ==
    \A c \in Emitted : \A k \in calls[c].call.nos :
        ~ ( /\ StrictlyFenced(lines, k)
            /\ Strip(lines[k]) # <<>>
            /\ Contains(segments[calls[c].seg].msgid, Strip(lines[k])) )

\* the open heading chain after the heading lines of hist, by the rule of the
\* context tracker: drop every entry of level >= L, then push the heading
RECURSIVE RefChain(_)
RefChain(hist) ==
    IF hist = <<>> THEN <<>>
    ELSE LET h == hist[Len(hist)]
             shallower(e) == e.level < h.level
         IN  Append(SelectSeq(RefChain(SubSeq(hist, 1, Len(hist) - 1)), shallower), h)

\* 'root', or the ids h{level}-{slug} of a chain joined by '#'
RefContext(chain) ==
    IF chain = <<>> THEN <<"r", "o", "o", "t">>
    ELSE Join([k \in 1..Len(chain) |->
                   <<"h">> \o IntToStr(chain[k].level) \o <<"-">> \o chain[k].slug],
              <<"#">>)

\* suffix is the end of t
EndsWith(t, suffix) ==
    Len(suffix) <= Len(t) /\ SubSeq(t, Len(t) - Len(suffix) + 1, Len(t)) = suffix

\* C5 (context path): the context_path of a segment is 'root' or the joined
\* ids of the heading chain open when it was registered, the chain of a
\* heading segment ending with the heading itself; the levels on the stack
\* are strictly increasing.
C5_ContextPath ==
    /\ \A c \in Emitted :
         LET seg == segments[calls[c].seg]
             hist == SubSeq(headings, 1, calls[c].call.nheads)
         IN  /\ seg.context_path = RefContext(RefChain(hist))
             /\ hist = <<>> => seg.context_path = <<"r", "o", "o", "t">>
             /\ seg.block_type = "heading" =>
                  /\ hist # <<>>
                  /\ hist[Len(hist)].line_no = seg.start_line
                  /\ EndsWith(seg.context_path,
                              <<"h">> \o IntToStr(hist[Len(hist)].level) \o <<"-">>
                              \o hist[Len(hist)].slug)
                  /\ EndsWith(seg.identifier,
                              seg.context_path \o <<"#", "t", "i", "t", "l", "e">>)
    /\ \A k \in 1..(Len(heading_stack) - 1) :
         heading_stack[k][1] < heading_stack[k + 1][1]

\* a block registered under a chain of two headings, after a sibling heading
\* was closed
C5_Witness ==
    /\ Len(headings) >= 3
    /\ Len(heading_stack) = 2
    /\ \E c \in Emitted :
         /\ calls[c].call.nheads = 3
         /\ segments[calls[c].seg].block_type # "heading"

\* the number of heading lines up to the k-th with its level and base slug
Occurrence(hist, k) ==
    Cardinality({j \in 1..k : /\ hist[j].level = hist[k].level
                              /\ hist[j].base_slug = hist[k].base_slug})

\* C6 (heading disambiguation): the k-th heading line with a given level and
\* base slug gets the slug 'base' for k = 1 and 'base-k' for k >= 2, whatever
\* the headings of other levels.
C6_HeadingDisambiguation ==
    \A k \in 1..Len(headings) :
        headings[k].slug =
            IF Occurrence(headings, k) = 1 THEN headings[k].base_slug
            ELSE headings[k].base_slug \o <<"-">> \o IntToStr(Occurrence(headings, k))

\* a repeated heading, with a heading of the same text at another level
\* between its two occurrences
C6_Witness ==
    \E a, b, c \in 1..Len(headings) :
        /\ a < b /\ b < c
        /\ headings[a].base_slug = headings[b].base_slug
        /\ headings[a].base_slug = headings[c].base_slug
        /\ headings[a].level = headings[c].level
        /\ headings[a].level # headings[b].level

\* C7 (drop of empty units): the msgid of a segment is non-empty and has no
\* leading or trailing whitespace, and a unit passed to register_segment is
\* dropped exactly when its raw content is empty or whitespace-only.
C7_DropOnlyEmpty ==
    /\ \A k \in 1..Len(segments) :
         /\ segments[k].msgid # <<>>
         /\ segments[k].msgid[1] \notin WHITESPACE
         /\ segments[k].msgid[Len(segments[k].msgid)] \notin WHITESPACE
    /\ \A c \in 1..Len(calls) :
         (calls[c].seg = 0) <=> (Strip(calls[c].call.content) = <<>>)

\* a unit made of one inline code span was emitted as [[CODE_1]], a unit with
\* empty content was dropped
C7_Witness ==
    /\ \E c \in Emitted :
         /\ calls[c].call.content = <<BACKTICK, "a", BACKTICK>>
         /\ segments[calls[c].seg].msgid
                = <<"[", "[", "C", "O", "D", "E", "_", "1", "]", "]">>
    /\ \E c \in 1..Len(calls) : calls[c].seg = 0

\* the tokens of the records of a segment
TokensOf(seg) == {seg.placeholders[k].token : k \in 1..Len(seg.placeholders)}

\* C10 (document-scoped tokens, as claimed): no two segments of one document
\* carry the same token string.
C10_TokensDistinctAcrossSegments ==
    \A a, b \in 1..Len(segments) :
        a # b => TokensOf(segments[a]) \cap TokensOf(segments[b]) = {}

\* C10 (amended, segment-scoped tokens): the tokens recorded in the
\* placeholders list of one segment are pairwise distinct.
C10_TokensDistinctWithinSegment ==
    \A s \in 1..Len(segments) :
        \A j, k \in 1..Len(segments[s].placeholders) :
            j # k => segments[s].placeholders[j].token # segments[s].placeholders[k].token

\* a segment with two records, and another segment with a record
C10_Witness ==
    \E a, b \in 1..Len(segments) :
        /\ a # b
        /\ Len(segments[a].placeholders) >= 2
        /\ Len(segments[b].placeholders) >= 1

(***************************************************************************)
(* Properties of the list branch, checked under SpecBlocks.                *)
(***************************************************************************)
\* the number of spaces a line starts with
SpaceIndent(line) ==
    Cardinality({k \in 1..Len(line) : \A j \in 1..k : line[j] = " "})

\* the width of the leading whitespace of a line, a tab advancing to the
\* next multiple of 4
RECURSIVE TabbedIndent(_, _, _)
TabbedIndent(line, k, col) ==
    IF k > Len(line) \/ line[k] \notin {" ", "\t"} THEN col
    ELSE TabbedIndent(line, k + 1,
                      IF line[k] = "\t" THEN 4 * ((col \div 4) + 1) ELSE col + 1)

\* the list_item units registered so far
ListCalls == {c \in 1..Len(calls) : calls[c].call.block_type = "list_item"}

\* line k follows the item line s after blank lines only, is not blank and
\* starts with more spaces than the item's base indent
ContinuationOf(s, k) ==
    /\ \A j \in (s + 1)..(k - 1) : Strip(lines[j]) = <<>>
    /\ Strip(lines[k]) # <<>>
    /\ SpaceIndent(lines[k]) > TabbedIndent(lines[s], 1, 0)

\* C11 (list continuation): a list item line followed by any number of blank
\* lines and then a non-blank line indented with spaces strictly more than
\* the item's base indent gives one list_item segment whose content contains
\* the item text and the continuation; the continuation line is part of no
\* other unit, also when it is itself a more-indented list marker.
C11_ListContinuation ==
    \A c \in ListCalls :
        \A k \in (calls[c].call.start_line + 1)..Len(lines) :
            ContinuationOf(calls[c].call.start_line, k) =>
                /\ calls[c].seg # 0
                /\ segments[calls[c].seg].block_type = "list_item"
                /\ segments[calls[c].seg].start_line = calls[c].call.start_line
                /\ k \in calls[c].call.nos
                /\ Contains(calls[c].call.content,
                            ListMatch(lines[calls[c].call.start_line]).rest)
                /\ Contains(calls[c].call.content, Strip(lines[k]))
                /\ \A d \in 1..Len(calls) : d # c => k \notin calls[d].call.nos
                /\ k \notin paragraph_nos

\* an item, a blank line, a more-indented list marker and an indented text
\* line were registered as one list item
C11_Witness ==
    \E c \in ListCalls :
        /\ calls[c].seg # 0
        /\ {calls[c].call.start_line + 2, calls[c].call.start_line + 3}
               \subseteq calls[c].call.nos
        /\ lines[calls[c].call.start_line + 1] = <<>>
        /\ ListMatch(lines[calls[c].call.start_line + 2]).ok
        /\ ~ListMatch(lines[calls[c].call.start_line + 3]).ok
        /\ Strip(lines[calls[c].call.start_line + 3]) # <<>>

\* C12 (tab-aware continuation indent): while a list item with base indent B
\* is accumulated, a following non-blank line whose leading whitespace, tabs
\* expanded to 4 columns, is strictly wider than B is appended to the item:
\* the line at which the accumulation stopped is never such a line.
C12_TabAwareContinuation ==
    \A c \in ListCalls :
        \A k \in {calls[c].call.start_line + Cardinality(calls[c].call.nos)} :
            k <= Len(lines) =>
                ~ ( /\ Strip(lines[k]) # <<>>
                    /\ TabbedIndent(lines[k], 1, 0)
                         > TabbedIndent(lines[calls[c].call.start_line], 1, 0) )

(***************************************************************************)
(* Properties of the fence branch, checked under SpecFences.               *)
(***************************************************************************)
\* C13 (fence closing and unterminated fence): a step that opens a fence
\* keeps the segments registered so far, the pending paragraph flushed among
\* them, and records the full marker of the line; while a fence is open every
\* step consumes one line and registers nothing, the fence stays open with
\* its marker unless the line's marker equals it exactly, and at the end of
\* the document the scan returns with the segments it had.
C13_FenceStaysOpen ==
    [][ /\ (pc = "scan" /\ ~in_fence /\ in_fence') =>
              /\ fence_marker' = FenceMarker(lines[i + 1])
              /\ paragraph_lines' = <<>>
              /\ Len(segments') >= Len(segments)
              /\ SubSeq(segments', 1, Len(segments)) = segments
        /\ (pc = "scan" /\ in_fence) =>
              /\ segments' = segments
              /\ calls' = calls
              /\ paragraph_lines' = <<>>
              /\ IF i < Len(lines)
                 THEN /\ i' = i + 1
                      /\ pc' = "scan"
                      /\ IF FenceMarker(lines[i + 1]) = fence_marker
                         THEN ~in_fence'
                         ELSE in_fence' /\ fence_marker' = fence_marker
                 ELSE /\ pc' = "done"
                      /\ in_fence' /\ fence_marker' = fence_marker
      ]_vars

\* a scan returned inside a fence of three tildes that was opened after a
\* paragraph and followed by a fence line of four tildes and one of backticks
C13_Witness ==
    /\ pc = "done"
    /\ in_fence
    /\ fence_marker = <<"~", "~", "~">>
    /\ Len(segments) = 1
    /\ Len(lines) = 4
    /\ lines[2] = <<"~", "~", "~">>
    /\ lines[3] = <<"~", "~", "~", "~">>
    /\ lines[4] = <<BACKTICK, BACKTICK, BACKTICK>>

(***************************************************************************)
(* The worked example, checked under SpecBlocks.                           *)
(***************************************************************************)
\* the kinds of the placeholder tokens of t from index k on, left to right
RECURSIVE TokenKindsFrom(_, _)
TokenKindsFrom(t, k) ==
    IF k > Len(t) THEN <<>>
    ELSE IF PlaceholderMatchEnd(t, k) = 0 THEN TokenKindsFrom(t, k + 1)
    ELSE <<SubSeq(t, k + 2, FirstIn(t, k, {"_"}) - 1)>>
         \o TokenKindsFrom(t, PlaceholderMatchEnd(t, k) + 1)

\* C14 (worked example): the document '# Title', blank, 'See [docs](http://
\* x.test "T") for (code span).' yields exactly two segments: a heading with
\* msgid 'Title' and order 1, then a paragraph with order 2 and context_path
\* 'h1-title' whose msgid holds exactly three tokens, of kinds URL, TITLE and
\* CODE from left to right, the URL and TITLE tokens adjacent between the
\* parentheses of the link.
C14_WorkedExample ==
    (pc = "done" /\ lines = WORKED_EXAMPLE) =>
        /\ Len(segments) = 2
        /\ segments[1].block_type = "heading"
        /\ segments[1].msgid = <<"T", "i", "t", "l", "e">>
        /\ segments[1].order = 1
        /\ segments[2].block_type = "paragraph"
        /\ segments[2].order = 2
        /\ segments[2].context_path = <<"h", "1", "-", "t", "i", "t", "l", "e">>
        /\ TokenKindsFrom(segments[2].msgid, 1)
              = << <<"U", "R", "L">>, <<"T", "I", "T", "L", "E">>,
                   <<"C", "O", "D", "E">> >>
        /\ \E j, k \in 1..Len(segments[2].placeholders) :
             /\ segments[2].placeholders[j].original
                  = <<"h", "t", "t", "p", ":", "/", "/", "x", ".", "t", "e", "s", "t">>
             /\ segments[2].placeholders[k].original = <<" ", "\"", "T", "\"">>
             /\ Contains(segments[2].msgid,
                         <<"]", "(">> \o segments[2].placeholders[j].token
                         \o segments[2].placeholders[k].token \o <<")">>)

\* the scan of the worked example returned
C14_Witness ==
    /\ pc = "done"
    /\ lines = WORKED_EXAMPLE
    /\ Len(segments) = 2
    /\ Len(segments[2].placeholders) = 3

(***************************************************************************)
(* Token numbering, checked under SpecCodec.                               *)
(***************************************************************************)
\* the kinds a record of each pass may have
PassKinds(pass) ==
    CASE pass = "code" -> {KIND_CODE}
      [] pass = "link" -> {KIND_URL, KIND_TITLE}
      [] pass = "url" -> {KIND_URL}
      [] pass = "angle" -> {KIND_URL, KIND_HTML}
      [] pass = "var" -> {KIND_VAR}

\* the passes that have run when sanitize_text is at a stage
PassesBefore(s) ==
    CASE s = "code" -> <<>>
      [] s = "link" -> <<"code">>
      [] s = "url" -> <<"code", "link">>
      [] s = "angle" -> <<"code", "link", "url">>
      [] s = "var" -> <<"code", "link", "url", "angle">>
      [] s \in {"restore", "done"} -> <<"code", "link", "url", "angle", "var">>

\* the tokens occurring in t from index k on
RECURSIVE TokensIn(_, _)
TokensIn(t, k) ==
    IF k > Len(t) THEN {}
    ELSE IF PlaceholderMatchEnd(t, k) = 0 THEN TokensIn(t, k + 1)
    ELSE {SubSeq(t, k, PlaceholderMatchEnd(t, k))}
         \cup TokensIn(t, PlaceholderMatchEnd(t, k) + 1)

\* C15 (token numbering within one sanitize call): the i-th record carries
\* the token [[KIND_i]] with KIND one of CODE, URL, TITLE, HTML, VAR, so the
\* tokens are distinct and numbered 1..k without gap; the records are grouped
\* by pass in the order code, link, raw URL, angle bracket, variable, each
\* group holding only the kinds of its pass; and for an input with no
\* token-like substring every token occurring in the sanitized text is the
\* token of exactly one record.
C15_TokenNumbering ==
    /\ manager.counter = Len(manager.items)
    /\ \A k \in 1..Len(manager.items) :
         \E kind \in {KIND_CODE, KIND_URL, KIND_TITLE, KIND_HTML, KIND_VAR} :
             manager.items[k].token = Token(kind, k)
    /\ \A j, k \in 1..Len(manager.items) :
         j # k => manager.items[j].token # manager.items[k].token
    /\ \E cut \in [0..Len(PassesBefore(stage)) -> 0..Len(manager.items)] :
         /\ cut[0] = 0
         /\ cut[Len(PassesBefore(stage))] = Len(manager.items)
         /\ \A p \in 1..Len(PassesBefore(stage)) :
              /\ cut[p - 1] <= cut[p]
              /\ \A k \in (cut[p - 1] + 1)..cut[p] :
                   \E kind \in PassKinds(PassesBefore(stage)[p]) :
                       manager.items[k].token = Token(kind, k)
    /\ (stage = "restore" /\ ~HasToken(raw_text)) =>
         \A t \in TokensIn(text, 1) :
             Cardinality({k \in 1..Len(manager.items) :
                              manager.items[k].token = t}) = 1

\* sanitize_text returned five records, one of each pass
C15_Witness ==
    /\ stage = "restore"
    /\ ~HasToken(raw_text)
    /\ Len(manager.items) = 5
    /\ manager.items[1].token = Token(KIND_CODE, 1)
    /\ manager.items[2].token = Token(KIND_URL, 2)
    /\ manager.items[3].token = Token(KIND_URL, 3)
    /\ manager.items[4].token = Token(KIND_HTML, 4)
    /\ manager.items[5].token = Token(KIND_VAR, 5)
    /\ TokensIn(text, 1) = {manager.items[k].token : k \in 1..5}

(***************************************************************************)
(* Block numbering and source order, checked under SpecBlocks, and         *)
(* termination, checked under SpecTerminating.                             *)
(***************************************************************************)
\* the letters that stand for a block type in an identifier
BlockSuffix(block_type) ==
    IF block_type = "paragraph" THEN <<"p">>
    ELSE IF block_type = "list_item" THEN <<"l", "i">>
    ELSE <<"q">>

\* the number of segments up to the s-th with its context_path and block_type
BlockRank(s) ==
    Cardinality({j \in 1..s : /\ segments[j].context_path = segments[s].context_path
                              /\ segments[j].block_type = segments[s].block_type})

\* C16 (per-context block numbering): the n-th segment emitted with a given
\* context_path and block_type (paragraph, list_item or blockquote) has the
\* identifier file#context_path#suffix-n, so the numbers run 1, 2, ..., k in
\* emission order without gap; each counter equals the number of segments
\* emitted for its pair, so a dropped unit consumed no number; no counter is
\* kept for headings.
C16_BlockNumbering ==
    /\ \A s \in 1..Len(segments) :
         segments[s].block_type # "heading" =>
             segments[s].identifier
                 = REL_PATH \o <<"#">> \o segments[s].context_path \o <<"#">>
                   \o BlockSuffix(segments[s].block_type) \o <<"-">>
                   \o IntToStr(BlockRank(s))
    /\ \A key \in DOMAIN block_counters :
         /\ key[2] \in {"paragraph", "list_item", "blockquote"}
         /\ block_counters[key]
              = Cardinality({s \in 1..Len(segments) :
                                 /\ segments[s].context_path = key[1]
                                 /\ segments[s].block_type = key[2]})
    /\ \A s \in 1..Len(segments) :
         segments[s].block_type # "heading" =>
             <<segments[s].context_path, segments[s].block_type>>
                 \in DOMAIN block_counters

\* under one heading, two list items were emitted as li-1 and li-2 with a
\* dropped list item between them
C16_Witness ==
    \E a, b, c \in 1..Len(calls) :
        /\ a < b /\ b < c
        /\ calls[a].seg # 0 /\ calls[b].seg = 0 /\ calls[c].seg # 0
        /\ calls[a].call.block_type = "list_item"
        /\ calls[b].call.block_type = "list_item"
        /\ calls[c].call.block_type = "list_item"
        /\ calls[a].call.nheads = 1
        /\ segments[calls[c].seg].context_path = segments[calls[a].seg].context_path
        /\ EndsWith(segments[calls[c].seg].identifier, <<"#", "l", "i", "-", "2">>)

(***************************************************************************)
(* Fence detection and heading context, checked under Spec.                *)
(***************************************************************************)
\* C17 (fence detection independent of the block accumulated): when the
\* scanner is at the top of its loop with the first i lines consumed, its
\* fence state (open or closed, and the opener's marker) is that of the
\* reference that walks those lines applying only the open/close rule, and
\* no line matching the fence pattern is part of a list item or blockquote.
C17_FenceStateIsReference ==
    /\ pc = "scan" =>
         (IF in_fence THEN fence_marker ELSE <<>>) = RefFence(lines, i)
    /\ \A c \in 1..Len(calls) :
         calls[c].call.block_type \in {"list_item", "blockquote"} =>
             \A k \in calls[c].call.nos : FenceMarker(lines[k]) = <<>>

\* the least and the greatest element of a non-empty set of numbers
Least(S) == CHOOSE n \in S : \A m \in S : n <= m

Greatest(S) == CHOOSE n \in S : \A m \in S : n >= m

\* C18 (source order and paragraph flushing): the units are registered in
\* source order, a pending paragraph before the unit of the line that ends
\* it and at the end of the document; the start_line of a unit is the number
\* of its first line, the start_line values of the segments increase strictly
\* with order, and no line belongs to two units.
C18_SourceOrder ==
    /\ \A c \in 1..Len(calls) :
         /\ calls[c].call.nos # {}
         /\ calls[c].call.nos \subseteq 1..i
         /\ calls[c].call.start_line = Least(calls[c].call.nos)
         /\ calls[c].seg # 0 =>
              segments[calls[c].seg].start_line = calls[c].call.start_line
    /\ \A c, d \in 1..Len(calls) :
         c < d => Greatest(calls[c].call.nos) < Least(calls[d].call.nos)
    /\ \A a, b \in 1..Len(segments) :
         a < b => /\ segments[a].order < segments[b].order
                  /\ segments[a].start_line < segments[b].start_line
    /\ paragraph_lines # <<>> =>
         /\ pc = "scan"
         /\ paragraph_start = Least(paragraph_nos)
         /\ Cardinality(paragraph_nos) = Len(paragraph_lines)
         /\ Greatest(paragraph_nos) = i
         /\ \A c \in 1..Len(calls) :
              Greatest(calls[c].call.nos) < paragraph_start

\* a paragraph of two lines that starts at line 2 was registered before the
\* unit of the line that ended it
C18_Witness ==
    \E c, d \in Emitted :
        /\ d = c + 1
        /\ calls[c].call.block_type = "paragraph"
        /\ calls[c].call.nos = {2, 3}
        /\ calls[d].call.block_type # "paragraph"
        /\ calls[d].call.start_line = 4

\* C19 (termination): the scan of every document ends; every iteration of
\* the main loop, whatever its branch, advances the line index by at least
\* one, the index never exceeds the number of lines, and the scan ends at
\* the last line with the paragraph buffer empty.
C19_Termination ==
    /\ <>(pc = "done")
    /\ [](i <= Len(lines))
    /\ [](pc = "done" => (i = Len(lines) /\ paragraph_lines = <<>>))
    /\ [][ /\ (pc = "scan" /\ pc' = "scan") => i' > i
           /\ (pc = "scan" /\ pc' = "done") => i' = i
           /\ pc = "done" => pc' = "done" ]_vars

\* a scan ended after a list item that took two lines in one iteration and a
\* paragraph that was pending at the end of the document
C19_Witness ==
    /\ pc = "done"
    /\ i = 3
    /\ \E c \in ListCalls : calls[c].call.nos = {1, 2}
    /\ calls[Len(calls)].call.block_type = "paragraph"
    /\ calls[Len(calls)].call.nos = {3}

\* the units registered for heading lines
HeadingCalls == {c \in 1..Len(calls) : calls[c].call.block_type = "heading"}

\* the heading lines processed so far that have the level and base slug of key
HeadingLinesOf(key) ==
    {n \in 1..Len(headings) : <<headings[n].level, headings[n].base_slug>> = key}

\* the context_path of an emitted segment is made of the ids of chain, the
\* heading chain open when it was registered
ContextIsChain(c) ==
    segments[calls[c].seg].context_path
        = RefContext(RefChain(SubSeq(headings, 1, calls[c].call.nheads)))

\* C20 (context elements backed by heading segments, as claimed): every
\* heading id in the context_path of an emitted segment belongs to a heading
\* whose own segment was emitted earlier in, or as, the same output, and a
\* heading line that yields no segment changes neither the heading stack nor
\* the slug counters.
C20_ContextBackedBySegments ==
    /\ \A c \in Emitted :
         /\ ContextIsChain(c)
         /\ \A h \in Range(RefChain(SubSeq(headings, 1, calls[c].call.nheads))) :
              \E d \in HeadingCalls \cap Emitted :
                  d <= c /\ calls[d].call.start_line = h.line_no
    /\ \A k \in 1..Len(heading_stack) :
         \E d \in HeadingCalls \cap Emitted :
             \E n \in 1..Len(headings) :
                 /\ headings[n].line_no = calls[d].call.start_line
                 /\ heading_stack[k]
                      = <<headings[n].level,
                          <<"h">> \o IntToStr(headings[n].level) \o <<"-">>
                          \o headings[n].slug>>
    /\ \A key \in DOMAIN slug_counters :
         slug_counters[key]
             = Cardinality({n \in HeadingLinesOf(key) :
                                \E d \in HeadingCalls \cap Emitted :
                                    calls[d].call.start_line = headings[n].line_no})

\* C20 (amended, context elements backed by heading lines): every heading id
\* in the context_path of an emitted segment belongs to a heading line
\* scanned at or before the segment; the heading's own segment was emitted
\* earlier in, or as, the same output unless its text is empty after
\* stripping trailing '#', and then its base slug is 'section'.  Every
\* heading line, with or without a segment, updates the heading stack and
\* increments the slug counter of its level and base slug.
C20_ContextBackedByHeadingLines ==
    /\ \A c \in Emitted :
         /\ ContextIsChain(c)
         /\ \A h \in Range(RefChain(SubSeq(headings, 1, calls[c].call.nheads))) :
              \E d \in HeadingCalls :
                  /\ d <= c
                  /\ calls[d].call.start_line = h.line_no
                  /\ h.line_no <= calls[c].call.start_line
                  /\ (calls[d].seg = 0) <=> (calls[d].call.content = <<>>)
                  /\ calls[d].seg = 0 =>
                         h.base_slug = <<"s", "e", "c", "t", "i", "o", "n">>
    /\ Len(heading_stack) = Len(RefChain(headings))
    /\ \A k \in 1..Len(heading_stack) :
         heading_stack[k]
             = <<RefChain(headings)[k].level,
                 <<"h">> \o IntToStr(RefChain(headings)[k].level) \o <<"-">>
                 \o RefChain(headings)[k].slug>>
    /\ DOMAIN slug_counters
         = {<<headings[n].level, headings[n].base_slug>> : n \in 1..Len(headings)}
    /\ \A key \in DOMAIN slug_counters :
         slug_counters[key] = Cardinality(HeadingLinesOf(key))

\* a block was emitted under a heading that has no segment, after a heading
\* that has one
C20_Witness ==
    \E c \in Emitted, d, e \in HeadingCalls :
        /\ e < d /\ d < c
        /\ calls[e].seg # 0
        /\ calls[d].seg = 0
        /\ calls[c].call.block_type # "heading"
        /\ calls[c].call.nheads = calls[d].call.nheads
        /\ Contains(segments[calls[c].seg].context_path,
                    <<"s", "e", "c", "t", "i", "o", "n">>)

=============================================================================
